---- MODULE Spec2Model ----
(***************************************************************************)
(* blepty.py: a bridge between a pseudo-terminal and the UART              *)
(* characteristic of a Bluetooth LE module.                                *)
(*                                                                         *)
(* The model follows the script from the command line (__main__) through   *)
(* Master.__init__ / TNCRequester.__init__ into the loop of Master.run,    *)
(* together with the three things that act on the program from outside:    *)
(* the far end of the pty (the process that opened the slave device), the  *)
(* radio link (which delivers notifications and can drop), and the os      *)
(* calls that can raise.                                                   *)
(***************************************************************************)
EXTENDS Integers, Sequences, FiniteSets, TLC

(* ------------------------------ bounds -------------------------------- *)

\* Bytes the record of one send cycle holds (see wire).
MaxInput == 22

\* Longest notification frame the radio link delivers.
MaxFrame == 4

\* Bytes the slave echoes back to the master before it is put into raw mode.
MaxEcho == 1

\* Longest list of characteristics discover_characteristics() returns.
MaxChars == 2

(* ------------------------- program constants --------------------------- *)

\* if pos == 20: the size of a full chunk.
C == 20

\* p.poll(3000): the wait with an empty buffer.
LongTimeout == 3000

\* p.poll(10): the wait with a partly filled buffer.
ShortTimeout == 10

\* data[3:]: the bytes of a notification frame that are not forwarded.
HeaderLen == 3

\* sys.exit(0) / sys.exit(1); an uncaught exception ends the interpreter with 1.
ExitOk == 0
ExitError == 1

\* The value of exitStatus while the process runs: no exit status.
Running == 0 - 1

None == "None"

RX_UUID == "424a0002"
TX_UUID == "424a0003"

\* The first byte of a write's result that acknowledges the packet (0x19), and
\* the results the link hands to the response: that one and another one.
Sentinel == 25
NoResult == << >>
Results == {<< Sentinel >>, << 0 >>}

Addrs == {"a1", "a2"}
Names == {"tnc", "other"}
Handles == {1, 2}

(* ------------------------------ helpers -------------------------------- *)

\* The byte the far end writes when the record of the send cycle holds k bytes.
\* The loop never looks at a byte's value, so the far end's bytes are numbered
\* from the start of the send cycle: all bytes of a cycle differ and a
\* reordering, a loss or a repetition shows.
FarByte(k) == k % 256

\* The frame of n bytes the link delivers: byte i is 200 + i.
Frame(n) == [i \in 1..n |-> 200 + i]

\* A byte that comes from a notification frame.
IsFrameByte(b) == b > 200

\* What is still queued when a send cycle starts, numbered from the start of
\* the new cycle.
Renumber(q) == [i \in 1..Len(q) |-> IF IsFrameByte(q[i]) THEN q[i] ELSE FarByte(i - 1)]

Frames == {Frame(n) : n \in 0..MaxFrame}

RECURSIVE Concat(_)
Concat(chunks) ==
    IF chunks = << >> THEN << >> ELSE Head(chunks) \o Concat(Tail(chunks))

RECURSIVE SeqsUpTo(_, _)
SeqsUpTo(S, n) ==
    IF n = 0 THEN {<< >>}
    ELSE LET shorter == SeqsUpTo(S, n - 1)
         IN  shorter \cup {Append(s, x) : s \in {t \in shorter : Len(t) = n - 1}, x \in S}

\* DiscoveryService.discover(2): a dict address -> name.
DeviceDicts == UNION {[S -> Names] : S \in SUBSET Addrs}

\* discover_characteristics(): a list of {uuid, value_handle}.
Characteristic == [uuid : {RX_UUID, TX_UUID}, value_handle : Handles]
CharLists == SeqsUpTo(Characteristic, MaxChars)

(* ------------------------- the pure functions -------------------------- *)

\* get_device without the test of the name.
get_device_any(devices, name) == DOMAIN devices

\* get_device: the addresses whose discovered name equals the name asked for.
get_device(devices, name) == {a \in DOMAIN devices : devices[a] = name}

\* find_characteristic without the test of the uuid.
find_characteristic_any(chars) == [i \in 1..Len(chars) |-> chars[i].value_handle]

\* find_characteristic: the value handles of the characteristics with the UART
\* uuid, in discovery order; the caller raises when there are none and takes
\* the first otherwise.
find_characteristic(chars) ==
    LET uart == SelectSeq(chars, LAMBDA x : x.uuid = RX_UUID)
    IN  [i \in 1..Len(uart) |-> uart[i].value_handle]

\* data[2:]: the slice one byte early.
PayloadEarly(data) == SubSeq(data, HeaderLen, Len(data))

\* data[3:] of on_notification: Python's slice, empty when the frame is short.
Payload(data) == SubSeq(data, HeaderLen + 1, Len(data))

\* The block without "block = StringIO()": the old one is kept.
KeepBlock(p, b) == b

\* The block the loop works on after "if pos == 0: block = StringIO()".
FreshBlock(p, b) == IF p = 0 THEN << >> ELSE b

\* p.poll(3000) in both branches.
PollTimeoutAlwaysLong(p) == LongTimeout

\* The timeout handed to p.poll at the top of the loop.
PollTimeoutMs(p) == IF p = 0 THEN LongTimeout ELSE ShortTimeout

\* os.read(fd, n) on the master: at most n of the bytes that are queued, the
\* empty string at end of file.
os_read(q, n) == SubSeq(q, 1, IF Len(q) < n THEN Len(q) ELSE n)

\* if pos > 20
IsFullOver(p) == p > C

\* if pos == 20
IsFull(p) == p = C

\* The short packet padded with zero bytes to the size of a full one.
ShortChunkPadded(b) == b \o [i \in 1..(C - Len(b)) |-> 0]

\* str(bytearray(block.getvalue())): the short packet's payload, the buffered
\* bytes as they are.
ShortChunk(b) == b

\* block.getvalue(): the full packet's payload.
FullChunk(b) == b

\* pos = 0 after a write.
AfterFlush(p) == 0

(* ------------------------------- state --------------------------------- *)

VARIABLES
    pc,          \* where the main thread is
    args,        \* the parsed command line: [list, mac, name]
    devices,     \* get_device's devices while it runs, the empty dict otherwise
    chars,       \* find_characteristic's chars while it runs, empty otherwise
    listed,      \* list() has printed the devices
    exitStatus,  \* the process's exit status, Running while it runs
    fault,       \* the exception that ended the process, "none" if none
    ptyOpen,     \* pty.openpty() has been called
    raw,         \* the slave is in raw mode with ECHO off
    connected,   \* the radio link is up (what is_connected() returns)
    linkMade,    \* TNCRequester.connect has been called
    subscribed,  \* read_by_handle_async has registered the response
    handle,      \* the handle find_characteristic returned, 0 before
    pos,         \* Master.run's pos
    block,       \* the contents of Master.run's block
    timeout,     \* the timeout of the poll in progress
    wire,        \* the bytes readable at the master in this send cycle: those
                 \* queued when the cycle's block was created and those that
                 \* came in since
    nread,       \* how many of them os.read has returned
    writes,      \* the payloads passed to write_by_handle_async in this cycle
    farOpen,     \* the far end still writes to the slave
    frame,       \* the last frame given to on_notification, empty before
    forwarded,   \* what that call wrote to the master with os.write
    result       \* what on_response was given for this send cycle's write,
                 \* NoResult until it is called

vars == <<pc, args, devices, chars, listed, exitStatus, fault, ptyOpen, raw, connected, linkMade,
          subscribed, handle, pos, block, timeout, wire, nread, writes,
          farOpen, frame, forwarded, result>>

mainVars == <<args, devices, chars, listed>>
ptyVars == <<ptyOpen, raw>>
linkVars == <<connected, linkMade, subscribed, handle>>
loopVars == <<pos, block, timeout>>
streamVars == <<wire, nread, writes>>
notifyVars == <<frame, forwarded, result>>

\* The bytes os.read has returned in this send cycle, and those still queued.
consumed == SubSeq(wire, 1, nread)
queued == SubSeq(wire, nread + 1, Len(wire))

Init ==
    /\ pc = "main"
    /\ args \in [list : BOOLEAN, mac : {None, "a1"}, name : {None, "tnc"}]
    /\ devices = << >>
    /\ chars = << >>
    /\ listed = FALSE
    /\ exitStatus = Running
    /\ fault = "none"
    /\ ptyOpen = FALSE
    /\ raw = FALSE
    /\ connected = FALSE
    /\ linkMade = FALSE
    /\ subscribed = FALSE
    /\ handle = 0
    /\ pos = 0
    /\ block = << >>
    /\ timeout = 0
    /\ wire = << >>
    /\ nread = 0
    /\ writes = << >>
    /\ farOpen = TRUE
    /\ frame = << >>
    /\ forwarded = << >>
    /\ result = NoResult

(* --------------------------- leaving the process ------------------------ *)

\* sys.exit(status), or falling off the end of the script: the process ends
\* and TNCRequester.__del__ disconnects.
Exit(status) ==
    /\ pc' = "exited"
    /\ exitStatus' = status
    /\ connected' = FALSE

\* An exception nobody catches: a traceback and exit status 1.
Raise(what) ==
    /\ fault' = what
    /\ Exit(ExitError)

(* ------------------------------ __main__ -------------------------------- *)

\* if args.list is True: list(); sys.exit(0)
MainList ==
    /\ pc = "main"
    /\ args.list
    /\ listed' = TRUE
    /\ Exit(ExitOk)
    /\ UNCHANGED <<args, devices, chars, fault, ptyVars, linkMade, subscribed, handle, loopVars,
                   streamVars, farOpen, notifyVars>>

\* if args.mac is None and args.name is not None: get_device(args.name) asks
\* the discovery service for the devices in range.
MainDiscover ==
    /\ pc = "main"
    /\ ~args.list
    /\ args.mac = None /\ args.name # None
    /\ devices' \in DeviceDicts
    /\ pc' = "resolve"
    /\ UNCHANGED <<args, chars, listed, exitStatus, fault, ptyVars, linkVars,
                   loopVars, streamVars, farOpen, notifyVars>>

\* dev = get_device(args.name): exit with 1 when no device or several devices
\* carry the name, otherwise args.mac = dev[0][0].
MainResolve ==
    /\ pc = "resolve"
    /\ LET dev == get_device(devices, args.name)
       IN  IF Cardinality(dev) = 0 \/ Cardinality(dev) > 1
           THEN /\ Exit(ExitError)
                /\ UNCHANGED args
           ELSE /\ args' = [args EXCEPT !.mac = CHOOSE a \in dev : TRUE]
                /\ pc' = "start"
                /\ UNCHANGED <<exitStatus, connected>>
    /\ devices' = << >>
    /\ UNCHANGED <<chars, listed, fault, ptyVars, linkMade, subscribed, handle,
                   loopVars, streamVars, farOpen, notifyVars>>

\* The same test, false: nothing to resolve.
MainNoResolve ==
    /\ pc = "main"
    /\ ~args.list
    /\ ~(args.mac = None /\ args.name # None)
    /\ pc' = "start"
    /\ UNCHANGED <<mainVars, exitStatus, fault, ptyVars, linkVars, loopVars,
                   streamVars, farOpen, notifyVars>>

\* if args.mac is not None: master = Master(args.mac); otherwise the script ends.
MainStart ==
    /\ pc = "start"
    /\ IF args.mac # None
       THEN /\ pc' = "openpty"
            /\ UNCHANGED <<exitStatus, connected>>
       ELSE Exit(ExitOk)
    /\ UNCHANGED <<mainVars, fault, ptyVars, linkMade, subscribed, handle, loopVars,
                   streamVars, farOpen, notifyVars>>

(* -------------------- Master.__init__, TNCRequester.__init__ ------------- *)

\* Master.__init__ with the requester started ahead of pty.openpty().
OpenPtyDeferred ==
    /\ pc = "openpty"
    /\ pc' = "connect"
    /\ UNCHANGED <<mainVars, exitStatus, fault, ptyVars, linkVars, loopVars,
                   streamVars, farOpen, notifyVars>>

\* self.master, self.slave = pty.openpty()
OpenPty ==
    /\ pc = "openpty"
    /\ ptyOpen' = TRUE
    /\ pc' = "connect"
    /\ UNCHANGED <<mainVars, exitStatus, fault, raw, linkVars, loopVars,
                   streamVars, farOpen, notifyVars>>

\* GATTRequester.__init__ and self.connect(True, ...): the link comes up, or
\* connect raises.
Connect ==
    /\ pc = "connect"
    /\ \E ok \in BOOLEAN :
          IF ok
          THEN /\ connected' = TRUE
               /\ linkMade' = TRUE
               /\ pc' = "discover"
               /\ UNCHANGED <<exitStatus, fault>>
          ELSE /\ Raise("connect")
               /\ UNCHANGED linkMade
    /\ UNCHANGED <<mainVars, ptyVars, subscribed, handle, loopVars, streamVars,
                   farOpen, notifyVars>>

\* find_characteristic: chars = self.discover_characteristics()
DiscoverCharacteristics ==
    /\ pc = "discover"
    /\ chars' \in CharLists
    /\ pc' = "filter"
    /\ UNCHANGED <<args, devices, listed, exitStatus, fault, ptyVars, linkVars,
                   loopVars, streamVars, farOpen, notifyVars>>

\* The rest of find_characteristic and self.handle = ...: RuntimeError when no
\* discovered characteristic carries the UART uuid, otherwise the first one's
\* value handle.
FindCharacteristic ==
    /\ pc = "filter"
    /\ LET found == find_characteristic(chars)
       IN  IF Len(found) = 0
           THEN /\ Raise("uart")
                /\ UNCHANGED handle
           ELSE /\ handle' = found[1]
                /\ pc' = "subscribe"
                /\ UNCHANGED <<exitStatus, fault, connected>>
    /\ chars' = << >>
    /\ UNCHANGED <<args, devices, listed, ptyVars, linkMade, subscribed, loopVars,
                   streamVars, farOpen, notifyVars>>

\* self.read_by_handle_async(self.handle, self.response), then get_handle().
Subscribe ==
    /\ pc = "subscribe"
    /\ subscribed' = TRUE
    /\ pc' = "setraw"
    /\ UNCHANGED <<mainVars, exitStatus, fault, ptyVars, connected, linkMade,
                   handle, loopVars, streamVars, farOpen, notifyVars>>

\* tty.setraw, ECHO off, fchmod, the "Listening on" line.
SetRaw ==
    /\ pc = "setraw"
    /\ raw' = TRUE
    /\ pc' = "run"
    /\ UNCHANGED <<mainVars, exitStatus, fault, ptyOpen, linkVars, loopVars,
                   streamVars, farOpen, notifyVars>>

(* ------------------------------ Master.run ------------------------------ *)

\* The poll object is set up and pos = 0.
RunSetup ==
    /\ pc = "run"
    /\ pos' = 0
    /\ pc' = "top"
    /\ UNCHANGED <<mainVars, exitStatus, fault, ptyVars, linkVars, block, timeout,
                   streamVars, farOpen, notifyVars>>

\* The top of the loop: a new block when pos == 0, and the call of p.poll with
\* the timeout that goes with pos.  A new block starts a new send cycle, and
\* the record of the stream (wire, nread, writes) starts again with it.
LoopTop ==
    /\ pc = "top"
    /\ block' = FreshBlock(pos, block)
    /\ timeout' = PollTimeoutMs(pos)
    /\ pc' = "poll"
    /\ IF pos = 0
       THEN /\ wire' = Renumber(queued)
            /\ nread' = 0
            /\ writes' = << >>
            /\ result' = NoResult
       ELSE UNCHANGED <<streamVars, result>>
    /\ UNCHANGED <<mainVars, exitStatus, fault, ptyVars, linkVars, pos,
                   farOpen, frame, forwarded>>

\* p.poll returns an empty list: nothing became readable within the timeout.
PollTimeout ==
    /\ pc = "poll"
    /\ queued = << >>
    /\ pc' = "timedout"
    /\ UNCHANGED <<mainVars, exitStatus, fault, ptyVars, linkVars, loopVars,
                   streamVars, farOpen, notifyVars>>

\* p.poll reports the master readable.
PollReady ==
    /\ pc = "poll"
    /\ queued # << >>
    /\ pc' = "ready"
    /\ UNCHANGED <<mainVars, exitStatus, fault, ptyVars, linkVars, loopVars,
                   streamVars, farOpen, notifyVars>>

\* p.poll reports the master readable although nothing is queued: the far end
\* has closed the slave and the master is at end of file, so that the read
\* that follows returns the empty string.  (Master keeps self.slave open, so
\* a running bridge does not see this; the step is part of Spec so that the
\* safety claims cover a read of zero bytes.)
PollHangup ==
    /\ pc = "poll"
    /\ ~farOpen
    /\ queued = << >>
    /\ pc' = "ready"
    /\ UNCHANGED <<mainVars, exitStatus, fault, ptyVars, linkVars, loopVars,
                   streamVars, farOpen, notifyVars>>

\* p.poll raises (select.error); nothing in run catches it.
PollFail ==
    /\ pc = "poll"
    /\ Raise("poll")
    /\ UNCHANGED <<mainVars, ptyVars, linkMade, subscribed, handle, loopVars,
                   streamVars, farOpen, notifyVars>>

\* The timeout branch with "continue" where the break is.
TimeoutBreakContinues ==
    /\ pc = "timedout"
    /\ ~connected
    /\ pc' = "top"
    /\ UNCHANGED <<mainVars, exitStatus, fault, ptyVars, linkVars, loopVars,
                   streamVars, farOpen, notifyVars>>

\* if not self.requester.is_connected(): print("Disconnected"); break
TimeoutBreak ==
    /\ pc = "timedout"
    /\ ~connected
    /\ pc' = "done"
    /\ UNCHANGED <<mainVars, exitStatus, fault, ptyVars, linkVars, loopVars,
                   streamVars, farOpen, notifyVars>>

\* "if pos == 0: continue" ahead of the test of is_connected().
TimeoutContinueUnchecked ==
    /\ pc = "timedout"
    /\ pos = 0
    /\ pc' = "top"
    /\ UNCHANGED <<mainVars, exitStatus, fault, ptyVars, linkVars, loopVars,
                   streamVars, farOpen, notifyVars>>

\* if pos == 0: continue
TimeoutContinue ==
    /\ pc = "timedout"
    /\ connected
    /\ pos = 0
    /\ pc' = "top"
    /\ UNCHANGED <<mainVars, exitStatus, fault, ptyVars, linkVars, loopVars,
                   streamVars, farOpen, notifyVars>>

\* The short packet without "if pos == 0: continue" ahead of it.
TimeoutFlushAlways ==
    /\ pc = "timedout"
    /\ connected
    /\ writes' = Append(writes, ShortChunk(block))
    /\ pos' = AfterFlush(pos)
    /\ pc' = "tail"
    /\ UNCHANGED <<mainVars, exitStatus, fault, ptyVars, linkVars, block, timeout,
                   wire, nread, farOpen, notifyVars>>

\* The short packet: write_by_handle_async(handle, str(bytearray(block.getvalue())),
\* response); pos = 0.  The call returns, or raises and nothing catches it.
TimeoutFlush ==
    /\ pc = "timedout"
    /\ connected
    /\ pos # 0
    /\ writes' = Append(writes, ShortChunk(block))
    /\ \E ok \in BOOLEAN :
          IF ok
          THEN /\ pos' = AfterFlush(pos)
               /\ pc' = "tail"
               /\ UNCHANGED <<exitStatus, fault, connected>>
          ELSE /\ Raise("write")
               /\ UNCHANGED pos
    /\ UNCHANGED <<mainVars, ptyVars, linkMade, subscribed, handle, block, timeout,
                   wire, nread, farOpen, notifyVars>>

\* The read with "pos += 1" for "pos += len(c)".
ReadByteCountsOne ==
    /\ pc = "ready"
    /\ LET c == os_read(queued, 1)
       IN  /\ block' = block \o c
           /\ pos' = pos + 1
           /\ nread' = nread + Len(c)
    /\ pc' = "tail"
    /\ UNCHANGED <<mainVars, exitStatus, fault, ptyVars, linkVars, timeout, wire,
                   writes, farOpen, notifyVars>>

\* c = os.read(self.master, 1); block.write(c); pos += len(c)
ReadByte ==
    /\ pc = "ready"
    /\ LET c == os_read(queued, 1)
       IN  /\ block' = block \o c
           /\ pos' = pos + Len(c)
           /\ nread' = nread + Len(c)
    /\ pc' = "tail"
    /\ UNCHANGED <<mainVars, exitStatus, fault, ptyVars, linkVars, timeout, wire,
                   writes, farOpen, notifyVars>>

\* os.read inside a try/except that notes the error and tries again.
ReadFailRetried ==
    /\ pc = "ready"
    /\ fault' = "read"
    /\ pc' = "top"
    /\ UNCHANGED <<mainVars, exitStatus, ptyVars, linkVars, loopVars,
                   streamVars, farOpen, notifyVars>>

\* os.read raises (OSError); nothing in run catches it.
ReadFail ==
    /\ pc = "ready"
    /\ Raise("read")
    /\ UNCHANGED <<mainVars, ptyVars, linkMade, subscribed, handle, loopVars,
                   streamVars, farOpen, notifyVars>>

\* The full packet's write inside a try/except that logs and goes on.
TailFlushCaught ==
    /\ pc = "tail"
    /\ IsFull(pos)
    /\ writes' = Append(writes, FullChunk(block))
    /\ \E ok \in BOOLEAN : fault' = IF ok THEN fault ELSE "write"
    /\ pos' = AfterFlush(pos)
    /\ pc' = "top"
    /\ UNCHANGED <<mainVars, exitStatus, ptyVars, linkVars, block, timeout,
                   wire, nread, farOpen, notifyVars>>

\* if pos == 20: write_by_handle_async(handle, block.getvalue(), response); pos = 0
TailFlush ==
    /\ pc = "tail"
    /\ IsFull(pos)
    /\ writes' = Append(writes, FullChunk(block))
    /\ \E ok \in BOOLEAN :
          IF ok
          THEN /\ pos' = AfterFlush(pos)
               /\ pc' = "top"
               /\ UNCHANGED <<exitStatus, fault, connected>>
          ELSE /\ Raise("write")
               /\ UNCHANGED pos
    /\ UNCHANGED <<mainVars, ptyVars, linkMade, subscribed, handle, block, timeout,
                   wire, nread, farOpen, notifyVars>>

\* The same test, false: back to the top of the loop.
TailSkip ==
    /\ pc = "tail"
    /\ ~IsFull(pos)
    /\ pc' = "top"
    /\ UNCHANGED <<mainVars, exitStatus, fault, ptyVars, linkVars, loopVars,
                   streamVars, farOpen, notifyVars>>

\* sys.exit(1) after the loop.
DoneWithError ==
    /\ pc = "done"
    /\ Exit(ExitError)
    /\ UNCHANGED <<mainVars, fault, ptyVars, linkMade, subscribed, handle, loopVars,
                   streamVars, farOpen, notifyVars>>

\* After the break: print("Done."); sys.exit(0)
Done ==
    /\ pc = "done"
    /\ Exit(ExitOk)
    /\ UNCHANGED <<mainVars, fault, ptyVars, linkMade, subscribed, handle, loopVars,
                   streamVars, farOpen, notifyVars>>

(* ------------------------- TNCRequester.on_notification ------------------ *)

\* The link's delivery thread calls on_notification(handle, data):
\* os.write(self.fd, data[3:]).  While the slave still echoes (before
\* tty.setraw and ECHO off), what is written to the master comes back on the
\* master's read side.
OnNotification ==
    /\ pc # "exited"
    /\ linkMade
    /\ connected
    /\ \E data \in Frames :
          /\ frame' = data
          /\ forwarded' = Payload(data)
          /\ IF raw
             THEN UNCHANGED wire
             ELSE /\ Len(wire) + Len(Payload(data)) <= MaxEcho
                  /\ wire' = wire \o Payload(data)
    /\ UNCHANGED <<pc, mainVars, exitStatus, fault, ptyVars, linkVars, loopVars,
                   nread, writes, farOpen, result>>

(* ------------------------------ NotifyTNC.on_response -------------------- *)

\* The link's delivery thread hands the result of the write to the response
\* that was passed to write_by_handle_async: on_response(data) prints it, and
\* nothing in the program reads it.
OnResponse ==
    /\ pc # "exited"
    /\ writes # << >>
    /\ result = NoResult
    /\ result' \in Results
    /\ UNCHANGED <<pc, mainVars, exitStatus, fault, ptyVars, linkVars, loopVars,
                   streamVars, farOpen, frame, forwarded>>

(* ------------------------------ environment ------------------------------ *)

\* The process that opened the slave writes one byte; it opens the slave once
\* "Listening on <name>" has told it the name.
FarEndWrite ==
    /\ pc # "exited"
    /\ raw
    /\ farOpen
    /\ Len(wire) < MaxInput
    /\ wire' = Append(wire, FarByte(Len(wire)))
    /\ UNCHANGED <<pc, mainVars, exitStatus, fault, ptyVars, linkVars, loopVars,
                   nread, writes, farOpen, notifyVars>>

\* The far end stops writing for good.
FarEndClose ==
    /\ pc # "exited"
    /\ raw
    /\ farOpen
    /\ farOpen' = FALSE
    /\ UNCHANGED <<pc, mainVars, exitStatus, fault, ptyVars, linkVars, loopVars,
                   streamVars, notifyVars>>

\* The radio link drops; is_connected() returns False from now on.
Disconnect ==
    /\ pc # "exited"
    /\ connected
    /\ connected' = FALSE
    /\ UNCHANGED <<pc, mainVars, exitStatus, fault, ptyVars, linkMade, subscribed,
                   handle, loopVars, streamVars, farOpen, notifyVars>>

(* ---------------------------- specifications ----------------------------- *)

\* The steps of the main thread.
MainThread ==
    \/ MainList \/ MainDiscover \/ MainResolve \/ MainNoResolve \/ MainStart
    \/ OpenPty \/ Connect \/ DiscoverCharacteristics \/ FindCharacteristic
    \/ Subscribe \/ SetRaw
    \/ RunSetup \/ LoopTop \/ PollTimeout \/ PollReady \/ PollFail
    \/ TimeoutBreak \/ TimeoutContinue \/ TimeoutFlush
    \/ ReadByte \/ ReadFail \/ TailFlush \/ TailSkip \/ Done

Next ==
    \/ MainThread
    \/ PollHangup
    \/ OnNotification \/ OnResponse \/ FarEndWrite \/ FarEndClose \/ Disconnect

Spec == Init /\ [][Next]_vars

\* The outbound path alone: the main thread, the far end and the state of the
\* link, without the link's callbacks (which the loop never reads).
NextOutbound == MainThread \/ FarEndWrite \/ FarEndClose \/ Disconnect

\* The main thread is scheduled: it takes its next step whenever it has one.
\* The master is never at end of file here: the bridge itself holds the slave.
FairSpec == Init /\ [][NextOutbound]_vars /\ WF_vars(MainThread)

(* ------------------------------- claims ---------------------------------- *)

\* The bytes the chunk buffer holds: pos counts them, and a block whose bytes
\* have been written (pos = 0) holds none until it is replaced.
Buffer == IF pos = 0 THEN << >> ELSE block

\* Where the main thread is while it is inside the loop of Master.run.
LoopPcs == {"top", "poll", "timedout", "ready", "tail"}

C2_ChunkBound ==
    /\ Len(block) <= 20
    /\ pos <= 20
    /\ pc \in {"poll", "timedout", "ready"} => (pos < 20 /\ Len(block) = pos)
    /\ pos = 20 => (pc = "tail" \/ fault = "write")
    /\ (pc = "top" /\ Len(block) = 20) => (pos = 0 /\ writes = << block >>)

\* The loop is back at its top after the write of a 20-byte chunk.
C2_Witness == pc = "top" /\ Len(block) = 20 /\ pos = 0 /\ writes = << block >>

C4_DisconnectedIdleExit ==
    [][/\ (pc = "timedout" /\ pos = 0 /\ ~connected /\ pc' # "timedout")
            => (pc' = "done" /\ writes' = writes)
       /\ (pc = "done")
            => (/\ writes' = writes
                /\ \/ pc' = "done"
                   \/ pc' = "exited" /\ exitStatus' = 0 /\ fault' = "none")
       /\ (pc = "exited")
            => (pc' = "exited" /\ writes' = writes /\ exitStatus' = exitStatus)
      ]_vars

\* The process has ended through the break taken with an empty buffer.
C4_Witness ==
    /\ pc = "exited"
    /\ exitStatus = 0
    /\ raw
    /\ pos = 0
    /\ timeout = 3000
    /\ writes = << >>

C6_ForwardsFrameTail ==
    IF Len(frame) < 3
    THEN forwarded = << >>
    ELSE /\ Len(forwarded) = Len(frame) - 3
         /\ \A i \in 1..Len(forwarded) : forwarded[i] = frame[i + 3]

\* A frame longer than its header has been forwarded.
C6_Witness == Len(frame) > 3 /\ forwarded # << >>

\* C7 as stated: a write that raises is confined to its flush: the buffer is
\* reset and the loop goes on.
C7_WriteFailureContained == fault = "write" => (pc \in LoopPcs /\ pos = 0)

\* C7, amended: a write that raises ends the loop and the process: nothing in
\* run catches the exception, pos is not reset, and the exit status is 1.
C7_WriteFailureFatal ==
    fault = "write"
        => /\ pc = "exited"
           /\ exitStatus = 1
           /\ pos > 0
           /\ writes # << >>
           /\ writes[Len(writes)] = block

\* A write has raised.
C7_Witness == fault = "write" /\ pc = "exited"

\* C8 as stated: once the link is down while the loop runs, the loop ends,
\* whatever the far end does.
C8_EventuallyTerminated ==
    (pc \in LoopPcs /\ ~connected) ~> (pc \in {"done", "exited"})

\* C8, amended: once the link is down while the loop runs and the far end has
\* stopped writing, the loop ends: through the break at the first
\* readiness-wait that times out, or earlier through an exception.  While
\* input keeps the waits from timing out, is_connected() is not called.
C8_TerminatesOnceInputStops ==
    (pc \in LoopPcs /\ ~connected /\ ~farOpen) ~> (pc \in {"done", "exited"})

\* The loop has been left through the break after the far end stopped writing.
C8_Witness == pc = "done" /\ ~farOpen /\ ~connected

\* C9: with --list the devices are listed and the process exits with 0; with
\* --name and no --mac the name is resolved, the script goes on with the one
\* matching address when exactly one discovered device carries the name and
\* exits with 1 otherwise; with no address after that the script ends with 0;
\* and no pty is opened and no link is made unless --list is absent and an
\* address is known.
C9_StartupDecision ==
    /\ []((ptyOpen \/ linkMade) => (~args.list /\ args.mac # None))
    /\ [][
          /\ (pc = "main" /\ pc' # "main")
                => (IF args.list
                    THEN /\ listed'
                         /\ pc' = "exited" /\ exitStatus' = 0
                         /\ ~ptyOpen' /\ ~linkMade'
                    ELSE IF args.mac = None /\ args.name # None
                    THEN pc' = "resolve"
                    ELSE pc' = "start" /\ args' = args)
          /\ (pc = "resolve" /\ pc' # "resolve")
                => (LET matches == {a \in DOMAIN devices : devices[a] = args.name}
                    IN  IF Cardinality(matches) = 1
                        THEN /\ pc' = "start"
                             /\ args'.mac \in matches
                             /\ exitStatus' = Running
                        ELSE /\ pc' = "exited" /\ exitStatus' = 1
                             /\ ~ptyOpen' /\ ~linkMade')
          /\ (pc = "start" /\ pc' # "start")
                => (IF args.mac = None
                    THEN /\ pc' = "exited" /\ exitStatus' = 0
                         /\ ~ptyOpen' /\ ~linkMade'
                    ELSE pc' = "openpty")
       ]_vars

\* The name was not resolved and the process has exited with 1.
C9_Witness ==
    /\ pc = "exited"
    /\ exitStatus = 1
    /\ fault = "none"
    /\ args.mac = None
    /\ args.name # None
    /\ ~ptyOpen
    /\ ~linkMade

\* C10: when no discovered characteristic carries the UART uuid,
\* find_characteristic raises: the process ends with the RuntimeError before
\* read_by_handle_async is called, before run is entered and without a write;
\* and nothing happens after the exit.
C10_NoUartAborts ==
    /\ [](fault = "uart"
            => /\ pc = "exited" /\ exitStatus = 1
               /\ ~subscribed /\ ~raw
               /\ writes = << >> /\ nread = 0 /\ pos = 0)
    /\ [][
          /\ (pc = "filter" /\ pc' # "filter")
                => (IF \A i \in 1..Len(chars) : chars[i].uuid # RX_UUID
                    THEN fault' = "uart" /\ pc' = "exited" /\ ~subscribed'
                    ELSE fault' = "none" /\ pc' = "subscribe")
          /\ (pc = "exited")
                => (pc' = "exited" /\ writes' = writes /\ subscribed' = subscribed)
       ]_vars

\* The characteristics held no UART characteristic and the process has ended.
C10_Witness == fault = "uart" /\ pc = "exited" /\ linkMade /\ ~subscribed

\* C11 as stated: a chunk is written again until its write's result begins
\* with the sentinel: the loop starts the next chunk (a new block at the top
\* of the loop) after a write whose result has come in only when that result
\* begins with the sentinel.
C11_NextChunkOnlyAfterSentinel ==
    [][(pc = "top" /\ pos = 0 /\ pc' = "poll" /\ writes # << >> /\ result # NoResult)
          => result[1] = Sentinel]_vars

\* C12: a write is issued only right after the read that brought the buffer
\* to exactly 20 bytes, or at a timeout of the wait with a non-empty buffer;
\* its payload is the buffer, between 1 and 20 bytes long; and a read that
\* returns no byte is followed by no write.
C12_WriteTriggers ==
    /\ [](/\ \A i \in 1..Len(writes) : Len(writes[i]) \in 1..20
          /\ (pc = "tail" /\ pos = 20)
                => (/\ nread >= 1
                    /\ Len(block) = 20
                    /\ block[20] = wire[nread]))
    /\ [][
          /\ (writes' # writes /\ writes' # << >>)
                => (/\ writes' = Append(writes, block)
                    /\ Len(block) = pos
                    /\ pos \in 1..20
                    /\ \/ pc = "tail" /\ pos = 20
                       \/ pc = "timedout" /\ pos < 20)
          /\ (pc = "ready" /\ pc' = "tail" /\ pos' = pos)
                => (/\ writes' = writes
                    /\ block' = block
                    /\ ~IsFull(pos'))
          /\ (pc = "tail" /\ pos # 20 /\ pc' # "tail")
                => writes' = writes
       ]_vars

\* A read has returned no byte with an empty buffer and no write was issued.
C12_Witness ==
    /\ pc = "tail"
    /\ pos = 0
    /\ writes = << >>
    /\ wire = << >>
    /\ ~farOpen

\* C13: while a readiness-wait is in progress or has just returned, its
\* timeout is 3000 ms when the buffer is empty and 10 ms when it is not, and
\* the buffer holds fewer than 20 bytes.
C13_WaitTimeouts ==
    pc \in {"poll", "timedout", "ready"}
        => /\ Len(block) = pos
           /\ pos < 20
           /\ (pos = 0 => timeout = 3000)
           /\ (pos > 0 => timeout = 10)

\* A wait with the short timeout is in progress with 19 bytes buffered.
C13_Witness == pc = "poll" /\ pos = 19 /\ Len(block) = 19 /\ timeout = 10

\* The process has ended because get_device found no device or several
\* devices with the name: sys.exit(1) without an exception.
NameResolutionFailed == pc = "exited" /\ exitStatus = 1 /\ fault = "none"

\* C14 as stated: when the name is not resolved or the UART characteristic
\* is not found, no pty has been opened and no link has been made.
C14_NoResourceAtStartupError ==
    (NameResolutionFailed \/ fault = "uart") => (~ptyOpen /\ ~linkMade)

\* C14, amended: when the name is not resolved, no pty has been opened and no
\* link has been made; when the UART characteristic is not found, the pty has
\* been opened and the link has been made before the error, and the process
\* ends with status 1 before the subscription and before the slave is
\* configured.
C14_StartupErrorResources ==
    /\ NameResolutionFailed => (~ptyOpen /\ ~linkMade /\ args.mac = None)
    /\ fault = "uart"
          => /\ ptyOpen
             /\ linkMade
             /\ ~subscribed
             /\ ~raw
             /\ pc = "exited"
             /\ exitStatus = 1

\* The UART characteristic was not found, with the pty open and the link made.
C14_Witness == fault = "uart" /\ ptyOpen /\ linkMade /\ exitStatus = 1

\* C15: when p.poll or os.read raises, the loop and the process end with an
\* error: the step that raises issues no write and leaves the buffer as it
\* is, the exit status is 1, and nothing (no wait, no read, no write) follows.
C15_PortFailureFatal ==
    /\ [](fault \in {"poll", "read"} => (pc = "exited" /\ exitStatus = 1))
    /\ [][
          /\ (fault = "none" /\ fault' \in {"poll", "read"})
                => (/\ pc \in {"poll", "ready"}
                    /\ fault' = (IF pc = "poll" THEN "poll" ELSE "read")
                    /\ writes' = writes
                    /\ pos' = pos
                    /\ block' = block
                    /\ nread' = nread)
          /\ (fault \in {"poll", "read"})
                => (/\ pc' = "exited"
                    /\ fault' = fault
                    /\ writes' = writes
                    /\ nread' = nread
                    /\ pos' = pos)
       ]_vars

\* os.read has raised with bytes in the buffer, which were not written.
C15_Witness ==
    /\ fault = "read"
    /\ pc = "exited"
    /\ pos > 0
    /\ Len(block) = pos
    /\ writes = << >>

\* C16 as stated: a call of on_notification, whatever the length of the
\* frame, changes nothing of the outbound path: not the buffer, not pos, not
\* where the loop is, and not what the loop reads and writes afterwards (the
\* bytes waiting at the master and the payloads written).
C16_NotificationLeavesOutboundPath ==
    [][(frame' # frame \/ forwarded' # forwarded)
          => /\ block' = block
             /\ pos' = pos
             /\ pc' = pc
             /\ fault' = fault
             /\ wire' = wire
             /\ nread' = nread
             /\ writes' = writes]_vars

\* C18: at every readiness-wait pos is the length of the block, and the
\* payloads written followed by the block are the bytes read; a send cycle's
\* record is closed (at the top of the loop, with pos = 0) only when the
\* payloads written are all the bytes read, so that this holds of the whole
\* run: what was written is a prefix of what was read, and each byte read is
\* in one payload or in the block.
C18_WaitInvariant ==
    /\ [](pc = "poll"
            => /\ pos = Len(block)
               /\ Concat(writes) \o block = consumed
               /\ (pos = 0 => writes = << >>))
    /\ [][(pc = "top" /\ pos = 0 /\ pc' = "poll")
            => (/\ Concat(writes) = consumed
                /\ Len(writes) <= 1
                /\ block' = << >>
                /\ nread' = 0)]_vars

\* A wait is in progress with two bytes read and buffered and more queued.
C18_Witness ==
    /\ pc = "poll"
    /\ pos = 2
    /\ block = consumed
    /\ writes = << >>
    /\ queued # << >>

\* C19 as stated: whatever on_notification has written to the master, it
\* wrote after the slave was put into raw mode with ECHO off.
C19_ForwardedOnlyWhenRaw == forwarded # << >> => raw

====
